---- MODULE Spec2Model ----
(***************************************************************************)
(* emf-hlr-importer (src/src/main.rs): imports subscriber key records into *)
(* an OsmoHLR over its VTY console, and keeps ./defaults.csv, the          *)
(* append-only table of default MSISDNs.                                   *)
(*                                                                         *)
(* The model follows main() statement by statement.  One run of the        *)
(* process goes  args -> load -> connect -> banner -> priv -> open ->      *)
(* read -> alloc -> show -> create -> msisdn -> aud3g -> read ... -> sync  *)
(* -> exited.  The defaults file, the registry's database and the input    *)
(* files outlive a run; Rerun starts the process again on them.            *)
(*                                                                         *)
(* An input file is known as far as a run has read it: the reader draws    *)
(* each record (or the end of the file) when it first gets there, and a    *)
(* later run reads the same records again.                                 *)
(***************************************************************************)
EXTENDS Integers, Sequences, FiniteSets, TLC

\* ------------------------------------------------------------- bounds

\* Largest number of input files on the command line.
MaxFiles == 2
\* Largest number of records in the input files, all together.
MaxRecs == 2
\* Number of times the process is run on the same files.
MaxRuns == 2
\* Longest response, in words after the echoed line, that the check of
\* acknowledgements is tried on.
MaxText == 4

\* ---------------------------------------------------- program constants

\* main.rs:33, the floor `biggest` starts from.
Floor == 90400000
\* main.rs:110, the ceiling of the assertion.
Ceiling == 90500000
\* main.rs:15, default_msisdn: u64.  Stands for 2^64 - 1, the top of u64:
\* TLC's integers end at 2^31 - 1, and every other number of the model is at
\* most Ceiling, so the order of the values and the wrap at the top are kept.
U64Max == 2147483647

\* Exit statuses: std::process::exit(1|2|3|4), 0 on return from main, and
\* 101, the status of a Rust process that panicked (unwrap, expect, assert!).
ExitOk == 0
ExitUsage == 1
\* Faulty variant: a bad input record ends the run with the usage status.
ExitBadRecordAsUsage == ExitUsage
ExitBadRecord == 2
ExitBadDefaults == 3
ExitWeirdHlr == 4
ExitPanic == 101

\* The IMSIs that occur in the files.
IMSIs == {"imsi1", "imsi2"}

\* ---------------------------------------------------------------- text

\* Strings are sequences of tokens; NL is the newline character.
NL == "NL"
Echo == "echo"

\* main.rs:125 "% No subscriber"
NoSubscriber == <<"%", "No", "subscriber">>
\* main.rs:143 "% Created subscriber"
CreatedSubscriber == <<"%", "Created", "subscriber">>
\* main.rs:144 "% Updated subscriber"
UpdatedSubscriber == <<"%", "Updated", "subscriber">>
\* main.rs:145 ""
Nothing == <<>>

\* str::starts_with
StartsWith(s, p) ==
    /\ Len(p) <= Len(s)
    /\ SubSeq(s, 1, Len(p)) = p

\* str::find('\n'): the index of the first newline, 0 for None.
FindNewline(s) ==
    IF \E k \in 1..Len(s) : s[k] = NL
    THEN CHOOSE k \in 1..Len(s) : s[k] = NL /\ \A j \in 1..(k - 1) : s[j] # NL
    ELSE 0

\* str::lines(): the text split at newlines; a final newline opens no line.
RECURSIVE Lines(_)
Lines(s) ==
    IF s = <<>> THEN <<>>
    ELSE LET n == FindNewline(s) IN
         IF n = 0 THEN <<s>>
         ELSE <<SubSeq(s, 1, n - 1)>> \o Lines(SubSeq(s, n + 1, Len(s)))

\* ---------------------------------------------------------------- data

\* Option::None of a u64 (HashMap::get found nothing; no MSISDN set).
NoEntry == -1

\* A line of defaults.csv as csv/serde sees it: Ok(DefaultsRecord) or Err.
DefaultsRecord(i, n) == [ok |-> TRUE, imsi |-> i, default_msisdn |-> n]
BadDefaultsRecord == [ok |-> FALSE, imsi |-> "", default_msisdn |-> 0]

\* A line of an input file as csv/serde sees it: Ok(KeysRecord) or Err.
KeysRecord(i) == [ok |-> TRUE, imsi |-> i, ki |-> "ki", opc |-> "opc"]
BadKeysRecord == [ok |-> FALSE, imsi |-> "", ki |-> "", opc |-> ""]
NoRecord == [ok |-> FALSE, imsi |-> "", ki |-> "-", opc |-> "-"]

\* The numbers a hand-made defaults.csv is given to start with: one below the
\* floor, the first above it, the last but one below the ceiling, the top of
\* u64.
InitNumbers == {1, Floor + 1, Ceiling - 2, U64Max}

\* defaults.csv before the first run: empty, or one record made by hand,
\* which may be one that does not deserialize.  Longer files come from the
\* runs' own appends.
InitDefaults ==
    {<<>>, <<BadDefaultsRecord>>}
        \cup {<<DefaultsRecord(i, n)>> : i \in IMSIs, n \in InitNumbers}

\* What csv's reader can give for a line of an input file.
KeysRecords == {KeysRecord(i) : i \in IMSIs} \cup {BadKeysRecord}

\* An input file nothing has been read of yet; `closed` says that its end
\* has been seen, so that `records` is all of it.
UnreadFile == [records |-> <<>>, closed |-> FALSE]

\* The command lines: no file, or up to MaxFiles files.
Inputs == {[k \in 1..n |-> UnreadFile] : n \in 0..MaxFiles}

RECURSIVE TotalRecords(_)
TotalRecords(files) ==
    IF files = <<>> THEN 0
    ELSE Len(Head(files).records) + TotalRecords(Tail(files))

\* What the reader gives at position k of file f: the record read there
\* before, the end seen there before, or else whatever the file holds there
\* (NoRecord is the end of the file).
ReaderNext(files, f, k) ==
    IF k <= Len(files[f].records) THEN {files[f].records[k]}
    ELSE IF files[f].closed THEN {NoRecord}
    ELSE {NoRecord} \cup (IF TotalRecords(files) < MaxRecs THEN KeysRecords ELSE {})

\* The files, with what the reader gave at position k of file f known.
Known(files, f, k, r) ==
    IF k <= Len(files[f].records) \/ files[f].closed THEN files
    ELSE IF r = NoRecord THEN [files EXCEPT ![f].closed = TRUE]
    ELSE [files EXCEPT ![f].records = Append(@, r)]

\* What exp_string("OsmoHLR# ") returns: Ok(the text before the prompt), or
\* Err when the prompt does not come within the 1500 ms of main.rs:77.
Text(t) == [ok |-> TRUE, text |-> t]
Timeout == [ok |-> FALSE, text |-> <<>>]

\* A subscriber of the registry.
Absent == [exists |-> FALSE, msisdn |-> NoEntry, keys |-> <<>>]
Provisioned == [exists |-> TRUE, msisdn |-> Floor, keys |-> <<"ki", "opc">>]

\* HashMap::insert on the IMSI -> MSISDN map.
Insert(m, k, v) == [x \in IMSIs |-> IF x = k THEN v ELSE m[x]]
EmptyMap == [x \in IMSIs |-> NoEntry]

Max(a, b) == IF a >= b THEN a ELSE b

\* read_defaults: the map and the biggest MSISDN of the file, from the floor
\* up; ok is FALSE when a record does not deserialize (exit 3).
RECURSIVE ReadDefaultsFrom(_, _, _)
ReadDefaultsFrom(lines, m, biggest) ==
    IF lines = <<>> THEN [ok |-> TRUE, imsis |-> m, biggest |-> biggest]
    ELSE IF ~Head(lines).ok THEN [ok |-> FALSE, imsis |-> m, biggest |-> biggest]
    ELSE ReadDefaultsFrom(Tail(lines),
                          Insert(m, Head(lines).imsi, Head(lines).default_msisdn),
                          Max(biggest, Head(lines).default_msisdn))

\* Faulty variant: the file is read from where append mode left it, its end.
read_defaults_at_end(f) == ReadDefaultsFrom(<<>>, EmptyMap, Floor)

\* Faulty variant: a record that does not deserialize is passed over.
IsOk(r) == r.ok
read_defaults_skipping(f) == ReadDefaultsFrom(SelectSeq(f, IsOk), EmptyMap, Floor)

read_defaults(f) == ReadDefaultsFrom(f, EmptyMap, Floor)

\* latest_default += 1 on a u64 at its top: the addition wraps (a build
\* without overflow checks); with overflow checks it panics instead.
WrappingInc(x) == IF x = U64Max THEN 0 ELSE x + 1
Overflows(x) == x = U64Max

\* ---------------------------------------------------------------- state

VARIABLES
    defaults,         \* ./defaults.csv: its records, in file order
    synced,           \* how many records of defaults.csv sync_all has covered
    all_files,        \* the input files named on the command line
    hlr_db,           \* the registry's subscribers, by IMSI
    pc,               \* where main() is
    exit_code,        \* the process's exit status, once pc = "exited"
    imsis,            \* main.rs:70, the loaded map
    latest_default,   \* main.rs:70
    cnt_new_default,  \* main.rs:84
    cnt_new_hlr,      \* main.rs:85
    file_idx,         \* main.rs:87, which file the outer loop is at
    rec_idx,          \* main.rs:90, which record the reader is at
    record,           \* main.rs:91
    default_msisdn,   \* main.rs:103
    session,          \* the console session: Disconnected .. Broken
    sent,             \* the command lines sent to the registry in this run
    reply,            \* main.rs:122/132, what the last exp_string returned
    run,              \* which run of the process this is
    faulted,          \* a registry or I/O fault happened in this run
    prev_clean,       \* the run before ended with status 0 and no fault
    loaded_len,       \* records in defaults.csv when this run started
    init_len          \* records in defaults.csv before the first run

vars == <<defaults, synced, all_files, hlr_db, pc, exit_code, imsis,
          latest_default, cnt_new_default, cnt_new_hlr, file_idx, rec_idx,
          record, default_msisdn, session, sent, reply, run, faulted,
          prev_clean, loaded_len, init_len>>

\* What survives the process.
world == <<defaults, synced, all_files, hlr_db, init_len>>
disk == <<defaults, synced, hlr_db, init_len>>
\* The Allocation Store's memory.
store == <<imsis, latest_default, cnt_new_default>>
\* The loop's position.
loop == <<file_idx, rec_idx, record, default_msisdn>>
\* The console as the process has it.
console == <<session, sent, reply>>
\* The bookkeeping of runs.
runs == <<run, prev_clean, loaded_len>>

\* The state of a process that has just been started.
Fresh ==
    /\ pc = "args"
    /\ exit_code = NoEntry
    /\ imsis = EmptyMap
    /\ latest_default = 0
    /\ cnt_new_default = 0
    /\ cnt_new_hlr = 0
    /\ file_idx = 0
    /\ rec_idx = 0
    /\ record = NoRecord
    /\ default_msisdn = NoEntry
    /\ session = "Disconnected"
    /\ sent = <<>>
    /\ reply = Text(<<>>)
    /\ faulted = FALSE

Init ==
    /\ defaults \in InitDefaults
    /\ synced = Len(defaults)
    /\ all_files \in Inputs
    /\ hlr_db \in [IMSIs -> {Absent, Provisioned}]
    /\ Fresh
    /\ run = 1
    /\ prev_clean = FALSE
    /\ loaded_len = Len(defaults)
    /\ init_len = Len(defaults)

\* ------------------------------------------------------------ registry

\* A command line sent to the console (main.rs:79, 121, 143-145).
Command(c, i, a) == [cmd |-> c, imsi |-> i, arg |-> a]
Enable == Command("enable", "", <<>>)
ShowCmd(i) == Command("show", i, <<>>)
CreateCmd(i) == Command("create", i, <<>>)
\* Faulty variant: the command carries the biggest number so far, not the
\* record's.
UpdateMsisdnWithLatest(i, n) == Command("update msisdn", i, <<latest_default>>)
UpdateMsisdnCmd(i, n) == Command("update msisdn", i, <<n>>)
UpdateAud3gCmd(i, k, o) == Command("update aud3g", i, <<k, o>>)

\* The registry's answer to a command when it works: the echoed command
\* line, then what the command printed.
HlrText(c, db) ==
    LET sub == db[c.imsi] IN
    CASE c.cmd = "show" ->
            IF sub.exists THEN <<Echo, NL, "ID", NL, "IMSI", NL>>
            ELSE <<Echo, NL>> \o NoSubscriber \o <<"for", "imsi", NL>>
      [] c.cmd = "create" ->
            IF sub.exists THEN <<Echo, NL, "%", "Subscriber", "exists", NL>>
            ELSE <<Echo, NL>> \o CreatedSubscriber \o <<"imsi", NL>>
      [] c.cmd = "update msisdn" ->
            IF sub.exists THEN <<Echo, NL>> \o UpdatedSubscriber \o <<"imsi", NL>>
            ELSE <<Echo, NL>> \o NoSubscriber \o <<"for", "imsi", NL>>
      [] c.cmd = "update aud3g" ->
            IF sub.exists THEN <<Echo, NL>>
            ELSE <<Echo, NL>> \o NoSubscriber \o <<"for", "imsi", NL>>

\* The registry's database after a command it carried out.
HlrApply(c, db) ==
    LET sub == db[c.imsi] IN
    CASE c.cmd = "show" -> db
      [] c.cmd = "create" ->
            IF sub.exists THEN db
            ELSE [db EXCEPT ![c.imsi] =
                     [exists |-> TRUE, msisdn |-> NoEntry, keys |-> <<>>]]
      [] c.cmd = "update msisdn" ->
            IF sub.exists THEN [db EXCEPT ![c.imsi].msisdn = c.arg[1]] ELSE db
      [] c.cmd = "update aud3g" ->
            IF sub.exists THEN [db EXCEPT ![c.imsi].keys = c.arg] ELSE db

\* What a registry or a connection at fault gives back, the command not
\* carried out: no prompt in time, a line cut before its newline, an error
\* line, a line cut short.
FaultReplies ==
    {Timeout, Text(<<Echo>>), Text(<<Echo, NL, "%", "Error", NL>>),
     Text(<<Echo, NL, "%">>)}
\* To the existence query: no prompt in time, or a line cut before its
\* newline.
ShowFaultReplies == {Timeout, Text(<<Echo>>)}

\* send_line(c) then exp_string("OsmoHLR# "): the reply, the registry's
\* database afterwards, and whether this was a fault.
Exchanges(c, db) ==
    {[reply |-> Text(HlrText(c, db)), db |-> HlrApply(c, db), fault |-> FALSE]}
        \cup {[reply |-> r, db |-> db, fault |-> TRUE] :
                    r \in IF c.cmd = "show" THEN ShowFaultReplies ELSE FaultReplies}

\* ------------------------------------------------------------ the code

\* main.rs:123: show_res.lines().nth(1); <<>> in a one-element sequence is
\* Some(""), the empty sequence is None.
show_res_first(show_res) ==
    IF Len(Lines(show_res)) >= 2 THEN <<Lines(show_res)[2]>> ELSE <<>>

\* Faulty variant: the test of main.rs:125 without its negation.
IsNoSubscriberInverted(line) == ~StartsWith(line, NoSubscriber)

\* main.rs:125: the subscriber is taken to be missing.
IsNoSubscriber(line) == StartsWith(line, NoSubscriber)

\* Faulty variant: only the emptiness of the response is looked at.
WeirdWithoutPrefix(res, wanted) == wanted = <<>> /\ res # <<>>

\* Faulty variant: the second half of the condition is left out.
WeirdWithoutEmptyCheck(res, wanted) == ~StartsWith(res, wanted)

\* main.rs:136: the response after the echoed line is not the wanted one.
Weird(res, wanted) ==
    ~StartsWith(res, wanted) \/ (wanted = <<>> /\ res # <<>>)

\* Faulty variant: the acknowledgement is not looked at.
expect_result_unchecked(full_res, wanted) ==
    IF FindNewline(full_res) = 0 THEN "panic" ELSE "ok"

\* main.rs:130-141 on the text exp_string returned: "panic" when it holds no
\* newline (find(..).unwrap()), "exit4" when it is weird, "ok" otherwise.
expect_result(full_res, wanted) ==
    LET first_newline == FindNewline(full_res) IN
    IF first_newline = 0 THEN "panic"
    ELSE IF Weird(SubSeq(full_res, first_newline + 1, Len(full_res)), wanted)
         THEN "exit4"
         ELSE "ok"

\* Faulty variant: the map is never hit.
LookupMisses(m, i) == NoEntry

\* main.rs:103: imsis.get(&imsi)
Lookup(m, i) == m[i]

\* main.rs:109: latest_default += 1
NextDefault(latest) == WrappingInc(latest)

\* Faulty variant: the assertion lets the ceiling itself through.
AtMostCeiling(n) == n <= Ceiling

\* main.rs:110: assert!(latest_default < 90500000)
BelowCeiling(n) == n < Ceiling

\* Faulty variant: the line stays in a buffer and does not reach the file.
AppendLost(f, imsi, ret) == f

\* Faulty variant: the line is written twice.
AppendTwice(f, imsi, ret) ==
    Append(Append(f, DefaultsRecord(imsi, ret)), DefaultsRecord(imsi, ret))

\* main.rs:113: write!(defaults, "{imsi},{ret}\n") on the file opened for
\* append.
AppendLine(f, imsi, ret) == Append(f, DefaultsRecord(imsi, ret))

\* The process ends with status `code`.
Exit(code) ==
    /\ pc' = "exited"
    /\ exit_code' = code

\* --------------------------------------------------------- the actions

\* main.rs:55-62: no file on the command line is a usage error.
Args ==
    /\ pc = "args"
    /\ IF all_files = <<>>
       THEN Exit(ExitUsage)
       ELSE pc' = "load" /\ UNCHANGED exit_code
    /\ UNCHANGED <<world, store, cnt_new_hlr, loop, console, runs, faulted>>

\* main.rs:65-72: read_defaults; a record that does not deserialize exits 3.
ReadDefaults ==
    /\ pc = "load"
    /\ LET r == read_defaults(defaults) IN
       IF r.ok
       THEN /\ imsis' = r.imsis
            /\ latest_default' = r.biggest
            /\ pc' = "connect"
            /\ UNCHANGED exit_code
       ELSE /\ Exit(ExitBadDefaults)
            /\ UNCHANGED <<imsis, latest_default>>
    /\ UNCHANGED <<world, cnt_new_default, cnt_new_hlr, loop, console, runs,
                   faulted>>

\* A panic (unwrap or expect on an Err) after an I/O failure or a timeout.
Panic ==
    /\ Exit(ExitPanic)
    /\ faulted' = TRUE

\* main.rs:75-77: TcpStream::connect(..).unwrap()
Connect ==
    /\ pc = "connect"
    /\ \/ /\ session' = "Authenticating"
          /\ pc' = "banner"
          /\ UNCHANGED <<exit_code, faulted>>
       \/ /\ Panic
          /\ UNCHANGED session
    /\ UNCHANGED <<world, store, cnt_new_hlr, loop, sent, reply, runs>>

\* main.rs:78-79: the unprivileged prompt is awaited, then "enable" is sent.
ExpectBanner ==
    /\ pc = "banner"
    /\ \/ /\ sent' = Append(sent, Enable)
          /\ pc' = "priv"
          /\ UNCHANGED <<exit_code, faulted, session>>
       \/ /\ Panic
          /\ session' = "Broken"
          /\ UNCHANGED sent
    /\ UNCHANGED <<world, store, cnt_new_hlr, loop, reply, runs>>

\* main.rs:80-85: the privileged prompt is awaited; the loop starts.
ExpectPrivileged ==
    /\ pc = "priv"
    /\ \/ /\ session' = "Ready"
          /\ pc' = "open"
          /\ file_idx' = 1
          /\ UNCHANGED <<exit_code, faulted>>
       \/ /\ Panic
          /\ session' = "Broken"
          /\ UNCHANGED file_idx
    /\ UNCHANGED <<world, store, cnt_new_hlr, rec_idx, record, default_msisdn,
                   sent, reply, runs>>

\* main.rs:87-89: the next file is opened, or the loop over the files ends.
OpenFile ==
    /\ pc = "open"
    /\ \/ /\ file_idx > Len(all_files)
          /\ pc' = "sync"
          /\ UNCHANGED <<exit_code, faulted, rec_idx>>
       \/ /\ file_idx <= Len(all_files)
          /\ rec_idx' = 1
          /\ pc' = "read"
          /\ UNCHANGED <<exit_code, faulted>>
       \/ /\ file_idx <= Len(all_files)
          /\ Panic
          /\ UNCHANGED rec_idx
    /\ UNCHANGED <<world, store, cnt_new_hlr, file_idx, record, default_msisdn,
                   console, runs>>

\* main.rs:90-101: the next record of the file; one that does not
\* deserialize exits 2; at the end of the file the outer loop goes on.
ReadRecord ==
    /\ pc = "read"
    /\ \E res \in ReaderNext(all_files, file_idx, rec_idx) :
          /\ all_files' = Known(all_files, file_idx, rec_idx, res)
          /\ IF res = NoRecord
             THEN /\ file_idx' = file_idx + 1
                  /\ pc' = "open"
                  /\ UNCHANGED <<exit_code, record>>
             ELSE IF ~res.ok
             THEN /\ Exit(ExitBadRecord)
                  /\ UNCHANGED <<file_idx, record>>
             ELSE /\ record' = res
                  /\ pc' = "alloc"
                  /\ UNCHANGED <<exit_code, file_idx>>
    /\ UNCHANGED <<disk, store, cnt_new_hlr, rec_idx, default_msisdn, console,
                   runs, faulted>>

\* main.rs:103-119: the default MSISDN of the record's IMSI, from the map or
\* newly made, written to defaults.csv and counted.
GetOrAllocate ==
    /\ pc = "alloc"
    /\ LET imsi == record.imsi
           d == Lookup(imsis, imsi)
           ret == NextDefault(latest_default)
       IN
       \/ /\ d # NoEntry
          /\ default_msisdn' = d
          /\ pc' = "show"
          /\ UNCHANGED <<defaults, latest_default, cnt_new_default, exit_code,
                         faulted>>
       \/ \* += 1 overflows in a build with overflow checks: panic
          /\ d = NoEntry
          /\ Overflows(latest_default)
          /\ Exit(ExitPanic)
          /\ UNCHANGED <<defaults, latest_default, cnt_new_default,
                         default_msisdn, faulted>>
       \/ \* the assertion fails: panic
          /\ d = NoEntry
          /\ ~BelowCeiling(ret)
          /\ latest_default' = ret
          /\ Exit(ExitPanic)
          /\ UNCHANGED <<defaults, cnt_new_default, default_msisdn, faulted>>
       \/ /\ d = NoEntry
          /\ BelowCeiling(ret)
          /\ latest_default' = ret
          /\ defaults' = AppendLine(defaults, imsi, ret)
          /\ cnt_new_default' = cnt_new_default + 1
          /\ default_msisdn' = ret
          /\ pc' = "show"
          /\ UNCHANGED <<exit_code, faulted>>
       \/ \* write! fails: expect panics
          /\ d = NoEntry
          /\ BelowCeiling(ret)
          /\ latest_default' = ret
          /\ Panic
          /\ UNCHANGED <<defaults, cnt_new_default, default_msisdn>>
    /\ UNCHANGED <<synced, all_files, hlr_db, init_len, imsis, cnt_new_hlr,
                   file_idx, rec_idx, record, console, runs>>

\* main.rs:121-128: the existence query; a subscriber that is there is
\* skipped.
Show ==
    /\ pc = "show"
    /\ \E x \in Exchanges(ShowCmd(record.imsi), hlr_db) :
          /\ sent' = Append(sent, ShowCmd(record.imsi))
          /\ reply' = x.reply
          /\ hlr_db' = x.db
          /\ faulted' = (faulted \/ x.fault)
          /\ IF ~x.reply.ok \/ show_res_first(x.reply.text) = <<>>
             THEN \* exp_string(..).unwrap() or nth(1).unwrap() panics
                  /\ Exit(ExitPanic)
                  /\ session' = "Broken"
                  /\ UNCHANGED rec_idx
             ELSE IF ~IsNoSubscriber(show_res_first(x.reply.text)[1])
             THEN \* continue
                  /\ rec_idx' = rec_idx + 1
                  /\ pc' = "read"
                  /\ UNCHANGED <<exit_code, session>>
             ELSE /\ pc' = "create"
                  /\ UNCHANGED <<exit_code, session, rec_idx>>
    /\ UNCHANGED <<defaults, synced, all_files, init_len, store, cnt_new_hlr,
                   file_idx, record, default_msisdn, runs>>

\* main.rs:130-141, the closure: `line` is sent, the response is awaited and
\* checked against `wanted`; `next` is where main() goes on.
ExpectResultOn(x, line, wanted, next) ==
    /\ sent' = Append(sent, line)
    /\ reply' = x.reply
    /\ hlr_db' = x.db
    /\ faulted' = (faulted \/ x.fault)
    /\ LET outcome == IF x.reply.ok THEN expect_result(x.reply.text, wanted)
                      ELSE "panic"
       IN
       IF outcome = "ok"
       THEN pc' = next /\ UNCHANGED <<exit_code, session>>
       ELSE /\ Exit(IF outcome = "exit4" THEN ExitWeirdHlr ELSE ExitPanic)
            /\ session' = "Broken"

\* The closure with the registry of the model at the other end.
ExpectResult(line, wanted, next) ==
    \E x \in Exchanges(line, hlr_db) : ExpectResultOn(x, line, wanted, next)

\* main.rs:143
Create ==
    /\ pc = "create"
    /\ ExpectResult(CreateCmd(record.imsi), CreatedSubscriber, "msisdn")
    /\ UNCHANGED <<defaults, synced, all_files, init_len, store, cnt_new_hlr,
                   loop, runs>>

\* main.rs:144
UpdateMsisdn ==
    /\ pc = "msisdn"
    /\ ExpectResult(UpdateMsisdnCmd(record.imsi, default_msisdn),
                    UpdatedSubscriber, "aud3g")
    /\ UNCHANGED <<defaults, synced, all_files, init_len, store, cnt_new_hlr,
                   loop, runs>>

\* main.rs:145-147: the keys are installed, the subscriber is counted and
\* the loop goes on to the next record.
UpdateAud3g ==
    /\ pc = "aud3g"
    /\ ExpectResult(UpdateAud3gCmd(record.imsi, record.ki, record.opc),
                    Nothing, "read")
    /\ cnt_new_hlr' = IF pc' = "read" THEN cnt_new_hlr + 1 ELSE cnt_new_hlr
    /\ rec_idx' = IF pc' = "read" THEN rec_idx + 1 ELSE rec_idx
    /\ UNCHANGED <<defaults, synced, all_files, init_len, store, file_idx,
                   record, default_msisdn, runs>>

\* main.rs:150-153: sync_all, the summary, and the end of main.
SyncAll ==
    /\ pc = "sync"
    /\ \/ /\ synced' = Len(defaults)
          /\ Exit(ExitOk)
          /\ UNCHANGED faulted
       \/ /\ Panic
          /\ UNCHANGED synced
    /\ UNCHANGED <<defaults, all_files, hlr_db, init_len, store, cnt_new_hlr,
                   loop, console, runs>>

\* The operator runs the tool again on the same files and the same registry.
Rerun ==
    /\ pc = "exited"
    /\ run < MaxRuns
    /\ run' = run + 1
    /\ prev_clean' = (exit_code = ExitOk /\ ~faulted)
    /\ loaded_len' = Len(defaults)
    /\ pc' = "args"
    /\ exit_code' = NoEntry
    /\ imsis' = EmptyMap
    /\ latest_default' = 0
    /\ cnt_new_default' = 0
    /\ cnt_new_hlr' = 0
    /\ file_idx' = 0
    /\ rec_idx' = 0
    /\ record' = NoRecord
    /\ default_msisdn' = NoEntry
    /\ session' = "Disconnected"
    /\ sent' = <<>>
    /\ reply' = Text(<<>>)
    /\ faulted' = FALSE
    /\ UNCHANGED world

Next ==
    \/ Args
    \/ ReadDefaults
    \/ Connect
    \/ ExpectBanner
    \/ ExpectPrivileged
    \/ OpenFile
    \/ ReadRecord
    \/ GetOrAllocate
    \/ Show
    \/ Create
    \/ UpdateMsisdn
    \/ UpdateAud3g
    \/ SyncAll
    \/ Rerun

Spec == Init /\ [][Next]_vars

\* ------------------------------------- the closure on any response at all

\* The words a response is made of.
AckWords == {"%", "Created", "Updated", "subscriber", NL}
\* What can follow the echoed line and its newline.
AckRemainders == UNION {[1..n -> AckWords] : n \in 0..MaxText}
\* What exp_string can return to the closure: no prompt in time, a text
\* without a newline, or the echoed line and anything after it.
AckReplies ==
    {Timeout, Text(<<>>), Text(<<Echo>>)}
        \cup {Text(<<Echo, NL>> \o r) : r \in AckRemainders}
\* A console that answers `r` and carries nothing out.
Answer(r) == [reply |-> r, db |-> hlr_db, fault |-> TRUE]

\* main() just before the first call of the closure (main.rs:143): the
\* table was empty, the first record of the first file got the first number
\* above the floor, and the registry did not know its IMSI.
AckInit ==
    /\ \E i \in IMSIs :
          /\ record = KeysRecord(i)
          /\ defaults = <<DefaultsRecord(i, Floor + 1)>>
          /\ all_files = <<[records |-> <<KeysRecord(i)>>, closed |-> FALSE]>>
          /\ sent = <<Enable, ShowCmd(i)>>
          /\ reply = Text(HlrText(ShowCmd(i), [x \in IMSIs |-> Absent]))
    /\ synced = 0
    /\ hlr_db = [x \in IMSIs |-> Absent]
    /\ pc = "create"
    /\ exit_code = NoEntry
    /\ imsis = EmptyMap
    /\ latest_default = Floor + 1
    /\ cnt_new_default = 1
    /\ cnt_new_hlr = 0
    /\ file_idx = 1
    /\ rec_idx = 1
    /\ default_msisdn = Floor + 1
    /\ session = "Ready"
    /\ run = 1
    /\ faulted = FALSE
    /\ prev_clean = FALSE
    /\ loaded_len = 0
    /\ init_len = 0

\* main.rs:143-145 with any response to each command.
AckCreate ==
    /\ pc = "create"
    /\ \E r \in AckReplies :
          ExpectResultOn(Answer(r), CreateCmd(record.imsi), CreatedSubscriber,
                         "msisdn")
    /\ UNCHANGED <<defaults, synced, all_files, init_len, store, cnt_new_hlr,
                   loop, runs>>

AckUpdateMsisdn ==
    /\ pc = "msisdn"
    /\ \E r \in AckReplies :
          ExpectResultOn(Answer(r), UpdateMsisdnCmd(record.imsi, default_msisdn),
                         UpdatedSubscriber, "aud3g")
    /\ UNCHANGED <<defaults, synced, all_files, init_len, store, cnt_new_hlr,
                   loop, runs>>

AckUpdateAud3g ==
    /\ pc = "aud3g"
    /\ \E r \in AckReplies :
          ExpectResultOn(Answer(r),
                         UpdateAud3gCmd(record.imsi, record.ki, record.opc),
                         Nothing, "read")
    /\ cnt_new_hlr' = IF pc' = "read" THEN cnt_new_hlr + 1 ELSE cnt_new_hlr
    /\ rec_idx' = IF pc' = "read" THEN rec_idx + 1 ELSE rec_idx
    /\ UNCHANGED <<defaults, synced, all_files, init_len, store, file_idx,
                   record, default_msisdn, runs>>

AckNext == AckCreate \/ AckUpdateMsisdn \/ AckUpdateAud3g

AckSpec == AckInit /\ [][AckNext]_vars

\* ---------------------------------------------------------- the claims

\* The records this run, or a run before it, appended to defaults.csv.
Appended == (init_len + 1)..Len(defaults)
\* The records this run appended.
AppendedNow == (loaded_len + 1)..Len(defaults)
\* The run has ended with status 0 and no fault on the way.
CleanExit == pc = "exited" /\ exit_code = ExitOk /\ ~faulted
\* The commands of this run that create or change a subscriber.
Provisioning == {"create", "update msisdn", "update aud3g"}
\* The text after the echoed line of the reply.
Remainder(r) == SubSeq(r.text, FindNewline(r.text) + 1, Len(r.text))

\* C1: every number the tool appends to defaults.csv, in this run or an
\* earlier one, is above the floor and above every number that was in the
\* file before it (loaded or appended), so none is given out twice.
C1_AllocatedAboveAllBefore ==
    \A j \in Appended :
        /\ defaults[j].default_msisdn > Floor
        /\ \A k \in 1..(j - 1) :
              defaults[j].default_msisdn > defaults[k].default_msisdn

\* C2: when the IMSI of the record is in the loaded map, the allocation step
\* takes the number of the map and leaves defaults.csv, latest_default and
\* the counter of new defaults as they are.
C2_KnownImsiKeepsNumber ==
    [][(pc = "alloc" /\ imsis[record.imsi] # NoEntry)
          => /\ default_msisdn' = imsis[record.imsi]
             /\ pc' = "show"
             /\ UNCHANGED <<defaults, synced, latest_default, cnt_new_default,
                            imsis>>]_vars

C2_Witness ==
    /\ pc = "show"
    /\ imsis[record.imsi] # NoEntry
    /\ default_msisdn = imsis[record.imsi]
    /\ cnt_new_default = 1

\* C3: in one run at most one record is appended to defaults.csv for an
\* IMSI, however often the IMSI occurs in the input.
C3_OneLinePerImsiPerRun ==
    \A i \in IMSIs :
        Cardinality({j \in AppendedNow : defaults[j].imsi = i}) <= 1

\* C4: in a run that follows a run that ended with status 0 and no fault,
\* nothing is appended to defaults.csv, no counter leaves zero and no create
\* or update command is sent.
C4_RerunAfterCleanRunDoesNothing ==
    (run > 1 /\ prev_clean)
        => /\ cnt_new_default = 0
           /\ cnt_new_hlr = 0
           /\ Len(defaults) = loaded_len
           /\ \A k \in 1..Len(sent) : sent[k].cmd \notin Provisioning

\* The second run has ended well after a first one that allocated, and it
\* has put the existence query for a record of the input.
C4_Witness ==
    /\ run > 1
    /\ prev_clean
    /\ CleanExit
    /\ Len(defaults) > init_len
    /\ \E k \in 1..Len(sent) : sent[k].cmd = "show"
    /\ \E i \in IMSIs : hlr_db[i].exists /\ hlr_db[i].msisdn # Floor

\* C5: when a later run over the same input ends with status 0, the
\* registry not at fault, every subscriber the registry holds has its
\* MSISDN and its keys (a subscriber a broken-off run left half made has
\* been completed).
C5_RerunCompletesSubscriber ==
    (run > 1 /\ CleanExit)
        => \A i \in IMSIs :
              hlr_db[i].exists
                  => hlr_db[i].msisdn # NoEntry /\ hlr_db[i].keys # <<>>

\* C6: a process that appended to defaults.csv has called sync_all on it
\* by the time it has exited, whatever the exit.
C6_SyncedAtEveryExit ==
    (pc = "exited" /\ cnt_new_default > 0) => synced = Len(defaults)

\* C7: at every moment, each command of this run about an IMSI that was not
\* in the loaded map finds the IMSI's record already appended to
\* defaults.csv, and the number an update carries is the number of such a
\* record; and an allocation step that appends nothing for such an IMSI ends
\* the process with nothing sent.
C7_AppendedBeforeSent ==
    /\ [](\A k \in 1..Len(sent) :
             (sent[k].cmd # "enable" /\ imsis[sent[k].imsi] = NoEntry)
                 => /\ \E j \in AppendedNow : defaults[j].imsi = sent[k].imsi
                    /\ sent[k].cmd = "update msisdn"
                         => \E j \in AppendedNow :
                               defaults[j] =
                                   DefaultsRecord(sent[k].imsi, sent[k].arg[1]))
    /\ [][(pc = "alloc" /\ imsis[record.imsi] = NoEntry /\ defaults' = defaults)
             => (pc' = "exited" /\ sent' = sent /\ hlr_db' = hlr_db)]_vars

\* A new number has been sent to the registry.
C7_Witness ==
    \E k \in 1..Len(sent) :
        /\ sent[k].cmd = "update msisdn"
        /\ imsis[sent[k].imsi] = NoEntry
        /\ hlr_db[sent[k].imsi].msisdn = sent[k].arg[1]

WantedAt(p) ==
    CASE p = "create" -> CreatedSubscriber
      [] p = "msisdn" -> UpdatedSubscriber
      [] p = "aud3g" -> Nothing

\* The reply came in time with the echoed line, and what follows the echoed
\* line is not the acknowledgement wanted.
Unexpected(r, wanted) ==
    /\ r.ok
    /\ FindNewline(r.text) # 0
    /\ \/ ~StartsWith(Remainder(r), wanted)
       \/ wanted = <<>> /\ Remainder(r) # <<>>

\* C9: an unexpected acknowledgement at any of the three steps ends the
\* process at once with status 4: the subscriber is not counted, nothing
\* but that command was sent in the step, and the process does nothing more.
C9_UnexpectedAckExits4 ==
    /\ [][(pc \in {"create", "msisdn", "aud3g"}
              /\ Unexpected(reply', WantedAt(pc)))
             => /\ pc' = "exited"
                /\ exit_code' = ExitWeirdHlr
                /\ cnt_new_hlr' = cnt_new_hlr
                /\ Len(sent') = Len(sent) + 1]_vars
    /\ [][pc = "exited" => (run' = run + 1 /\ sent' = <<>>)]_vars

\* The create of the first file's record was answered with something else
\* than "% Created subscriber", and a second file was never opened.
C9_Witness ==
    /\ pc = "exited"
    /\ exit_code = ExitWeirdHlr
    /\ sent[Len(sent)].cmd = "create"
    /\ ~StartsWith(Remainder(reply), CreatedSubscriber)
    /\ file_idx < Len(all_files)
    /\ cnt_new_hlr = 0

\* The reply to the existence query has a line after the echoed one, and
\* that line does not begin with "% No subscriber".
SaysExists(r) ==
    /\ r.ok
    /\ Len(Lines(r.text)) >= 2
    /\ ~StartsWith(Lines(r.text)[2], NoSubscriber)

\* The line after the echoed one begins with "% No subscriber".
SaysMissing(r) ==
    /\ r.ok
    /\ Len(Lines(r.text)) >= 2
    /\ StartsWith(Lines(r.text)[2], NoSubscriber)

\* C10: a record whose existence query is answered with a line that is not
\* the "no subscriber" marker is passed over: the step sends the query
\* alone, counts nothing and goes on to the next record; and a create is
\* only ever sent right after a query for the same IMSI that was answered
\* with the marker, an update only right after the create or update before
\* it.
C10_ExistingSubscriberSkipped ==
    /\ [][(pc = "show" /\ SaysExists(reply'))
             => /\ pc' = "read"
                /\ rec_idx' = rec_idx + 1
                /\ sent' = Append(sent, ShowCmd(record.imsi))
                /\ UNCHANGED <<file_idx, cnt_new_hlr, hlr_db, defaults>>]_vars
    /\ [][(Len(sent') = Len(sent) + 1 /\ sent'[Len(sent')].cmd = "create")
             => /\ sent[Len(sent)] = ShowCmd(sent'[Len(sent')].imsi)
                /\ SaysMissing(reply)]_vars
    /\ [](\A k \in 1..Len(sent) :
             /\ sent[k].cmd = "update msisdn"
                  => k > 1 /\ sent[k - 1] = CreateCmd(sent[k].imsi)
             /\ sent[k].cmd = "update aud3g"
                  => k > 1 /\ sent[k - 1].cmd = "update msisdn"
                           /\ sent[k - 1].imsi = sent[k].imsi)

\* A record was passed over and the next record of the file has been read.
C10_Witness ==
    /\ pc = "alloc"
    /\ rec_idx = 2
    /\ sent[Len(sent)].cmd = "show"
    /\ SaysExists(reply)
    /\ cnt_new_default = 1
    /\ cnt_new_hlr = 0

\* defaults.csv holds a record that does not deserialize.
BadDefaults == \E k \in 1..Len(defaults) : ~defaults[k].ok

\* C11: a record of defaults.csv that does not deserialize ends the run
\* with status 3 at the load, and a run that ended with status 3 has not
\* connected to the registry, has sent no command, has read no record of
\* the input and has appended no line.
C11_BadDefaultsExits3First ==
    /\ [][(pc = "load" /\ BadDefaults)
             => (pc' = "exited" /\ exit_code' = ExitBadDefaults)]_vars
    /\ [](exit_code = ExitBadDefaults
             => /\ pc = "exited"
                /\ session = "Disconnected"
                /\ sent = <<>>
                /\ file_idx = 0
                /\ record = NoRecord
                /\ TotalRecords(all_files) = 0
                /\ Len(defaults) = loaded_len
                /\ cnt_new_default = 0
                /\ cnt_new_hlr = 0
                /\ \A i \in IMSIs : hlr_db[i].msisdn \in {NoEntry, Floor})

\* A second run over the files has ended with status 3 again.
C11_Witness ==
    /\ pc = "exited"
    /\ exit_code = ExitBadDefaults
    /\ BadDefaults
    /\ Len(all_files) = MaxFiles
    /\ run = 2

\* The record the reader gives at the place the loop is at, once the step
\* has read it, does not deserialize.
ReadsBadRecord ==
    /\ pc = "read"
    /\ rec_idx <= Len(all_files'[file_idx].records)
    /\ ~all_files'[file_idx].records[rec_idx].ok

\* C12: an input record that does not deserialize ends the run with status
\* 2 in the step that reads it: nothing is allocated or sent for it,
\* defaults.csv and the registry stay as the records before it left them,
\* and the ended process reads, allocates and sends nothing more, so the
\* records after it, in this file or a later one, are not touched.
C12_BadRecordExits2NoRollback ==
    /\ [][ReadsBadRecord
             => /\ pc' = "exited"
                /\ exit_code' = 2
                /\ UNCHANGED <<defaults, hlr_db, sent, latest_default,
                               cnt_new_default, cnt_new_hlr, file_idx,
                               rec_idx>>]_vars
    /\ [][(pc = "exited" /\ exit_code = 2)
             => /\ run' = run + 1
                /\ UNCHANGED <<defaults, hlr_db, all_files>>]_vars

\* The second record of the first file did not deserialize; the first one
\* got its line and its subscriber, and the second file was never opened.
C12_Witness ==
    /\ pc = "exited"
    /\ exit_code = 2
    /\ rec_idx = 2
    /\ file_idx = 1
    /\ Len(all_files) = 2
    /\ all_files[2] = UnreadFile
    /\ cnt_new_default = 1
    /\ cnt_new_hlr = 1
    /\ Len(defaults) = loaded_len + 1
    /\ \E i \in IMSIs : hlr_db[i].exists /\ hlr_db[i].msisdn = defaults[Len(defaults)].default_msisdn

\* The reply came in time with the echoed line, and what follows the echoed
\* line is the acknowledgement wanted.
Acknowledged(r, wanted) ==
    /\ r.ok
    /\ FindNewline(r.text) # 0
    /\ StartsWith(Remainder(r), wanted)
    /\ wanted = <<>> => Remainder(r) = <<>>

\* The number step 1 has for the IMSI: the loaded map's, or else the one of
\* the line this run appended last.
ObtainedFor(i) ==
    IF imsis[i] # NoEntry THEN imsis[i]
    ELSE defaults[Len(defaults)].default_msisdn

\* C13: a record whose existence query is answered with the "no subscriber"
\* marker gets create, update msisdn and update aud3g in this order, one
\* command a step; each is sent only from the place the acknowledged
\* command before it leads to, and a command that is not acknowledged ends
\* the process; update msisdn carries the number step 1 took from the map
\* or appended for the record; cnt_new_hlr goes up, by one, only in the step
\* in which update aud3g is acknowledged.
C13_CreateMsisdnKeysInOrder ==
    /\ [][(pc = "show" /\ SaysMissing(reply')) => pc' = "create"]_vars
    /\ [][pc = "create"
             => /\ sent' = Append(sent, [cmd |-> "create", imsi |-> record.imsi,
                                         arg |-> <<>>])
                /\ pc' = IF Acknowledged(reply', CreatedSubscriber)
                         THEN "msisdn" ELSE "exited"]_vars
    /\ [][pc = "msisdn"
             => /\ sent' = Append(sent, [cmd |-> "update msisdn",
                                         imsi |-> record.imsi,
                                         arg |-> <<ObtainedFor(record.imsi)>>])
                /\ sent[Len(sent)].cmd = "create"
                /\ Acknowledged(reply, CreatedSubscriber)
                /\ pc' = IF Acknowledged(reply', UpdatedSubscriber)
                         THEN "aud3g" ELSE "exited"]_vars
    /\ [][pc = "aud3g"
             => /\ sent' = Append(sent, [cmd |-> "update aud3g",
                                         imsi |-> record.imsi,
                                         arg |-> <<record.ki, record.opc>>])
                /\ sent[Len(sent)].cmd = "update msisdn"
                /\ Acknowledged(reply, UpdatedSubscriber)
                /\ pc' = IF Acknowledged(reply', Nothing)
                         THEN "read" ELSE "exited"]_vars
    /\ [][cnt_new_hlr' > cnt_new_hlr
             => /\ pc = "aud3g"
                /\ Acknowledged(reply', Nothing)
                /\ cnt_new_hlr' = cnt_new_hlr + 1]_vars
    /\ [][(Len(sent') = Len(sent) + 1 /\ sent'[Len(sent')].cmd \in Provisioning)
             => pc \in {"create", "msisdn", "aud3g"}]_vars
    /\ [][(pc = "aud3g" /\ Acknowledged(reply', Nothing))
             => cnt_new_hlr' = cnt_new_hlr + 1]_vars

\* A subscriber was made with a number of the loaded map that is not the
\* biggest number, and counted.
C13_Witness ==
    /\ pc = "read"
    /\ cnt_new_hlr = 1
    /\ Len(sent) = 5
    /\ sent[3].cmd = "create"
    /\ sent[4].cmd = "update msisdn"
    /\ sent[5].cmd = "update aud3g"
    /\ sent[4].arg[1] = imsis[sent[4].imsi]
    /\ sent[4].arg[1] # latest_default
    /\ hlr_db[sent[4].imsi].msisdn = sent[4].arg[1]
    /\ hlr_db[sent[4].imsi].keys = <<"ki", "opc">>

\* The step sends a command to the console.
Sends == Len(sent') = Len(sent) + 1

\* C14: the session is Disconnected, Authenticating, Ready or Broken.  It
\* becomes Ready only when the privileged prompt has come after "enable";
\* a query, create or update is sent only in Ready, and the exchange leaves
\* the session Ready or Broken; a reply that does not come in time or is
\* not the acknowledgement wanted leaves it Broken; and in Broken the
\* process has ended: nothing more is sent and nothing is tried again.
C14_SessionReadyOrBroken ==
    /\ [](session \in {"Disconnected", "Authenticating", "Ready", "Broken"})
    /\ [](\A k \in 1..Len(sent) :
             sent[k].cmd # "enable"
                 => k > 1 /\ sent[1].cmd = "enable"
                          /\ session \in {"Ready", "Broken"})
    /\ [][(session' = "Ready" /\ session # "Ready")
             => /\ pc = "priv"
                /\ session = "Authenticating"
                /\ sent = <<[cmd |-> "enable", imsi |-> "", arg |-> <<>>]>>]_vars
    /\ [][(Sends /\ sent'[Len(sent')].cmd # "enable")
             => /\ session = "Ready"
                /\ session' \in {"Ready", "Broken"}]_vars
    /\ [][(pc \in {"show", "create", "msisdn", "aud3g"} /\ ~reply'.ok)
             => session' = "Broken"]_vars
    /\ [][(pc \in {"create", "msisdn", "aud3g"}
               /\ ~Acknowledged(reply', WantedAt(pc)))
             => session' = "Broken"]_vars
    /\ [](session = "Broken" => pc = "exited")
    /\ [][session = "Broken"
             => /\ run' = run + 1
                /\ session' = "Disconnected"
                /\ sent' = <<>>
                /\ UNCHANGED <<hlr_db, defaults>>]_vars

\* The first record's subscriber was made; an update for the second record
\* was not acknowledged and the session is broken.
C14_Witness ==
    /\ session = "Broken"
    /\ pc = "exited"
    /\ exit_code = ExitWeirdHlr
    /\ cnt_new_hlr = 1
    /\ sent[Len(sent)].cmd \in {"update msisdn", "update aud3g"}
    /\ ~Acknowledged(reply, WantedAt(IF sent[Len(sent)].cmd = "update msisdn"
                                      THEN "msisdn" ELSE "aud3g"))

\* C15: for every response that has a newline, the closure ends the process
\* with status 4 exactly when the wanted prefix is non-empty and what
\* follows the first newline does not begin with it, or the wanted prefix is
\* empty and what follows the first newline is not empty; otherwise main()
\* goes on to its next step.
C15_RejectsExactlyWhen ==
    [][(pc \in {"create", "msisdn", "aud3g"}
           /\ reply'.ok /\ FindNewline(reply'.text) # 0)
          => LET prefix == WantedAt(pc)
                 remainder == Remainder(reply')
                 rejects == \/ prefix # <<>> /\ ~StartsWith(remainder, prefix)
                            \/ prefix = <<>> /\ remainder # <<>>
             IN /\ (pc' = "exited" /\ exit_code' = 4) <=> rejects
                /\ pc' \in {"msisdn", "aud3g", "read"} <=> ~rejects]_vars

\* The response to update aud3g was the acknowledgement of an update with
\* text, and the process ended with status 4.
C15_Witness ==
    /\ pc = "exited"
    /\ exit_code = 4
    /\ sent[Len(sent)].cmd = "update aud3g"
    /\ reply = Text(<<Echo, NL>> \o UpdatedSubscriber)

\* The biggest number of the lines of defaults.csv, from the floor up.
RECURSIVE BiggestOf(_)
BiggestOf(f) ==
    IF f = <<>> THEN Floor
    ELSE LET rest == BiggestOf(SubSeq(f, 1, Len(f) - 1))
             n == f[Len(f)].default_msisdn
         IN IF n > rest THEN n ELSE rest

\* C16: latest_default starts a run as the biggest of the floor and the
\* numbers loaded; no step of the run makes it smaller; a new allocation
\* gives out exactly latest_default + 1 and leaves latest_default at the
\* number given out.
C16_WatermarkOnlyGrowsByOne ==
    /\ [][(pc = "load" /\ pc' = "connect")
             => latest_default' = BiggestOf(defaults)]_vars
    /\ [][(pc \notin {"args", "load", "exited"})
             => latest_default' >= latest_default]_vars
    /\ [][(pc = "alloc" /\ Len(defaults') = Len(defaults) + 1)
             => /\ latest_default < U64Max
                /\ defaults'[Len(defaults')].default_msisdn = latest_default + 1
                /\ default_msisdn' = latest_default + 1
                /\ latest_default' = latest_default + 1]_vars

\* The places in `sent` of the update aud3g commands that were acknowledged:
\* one that was not is the last command of the process, and `reply` is the
\* reply to it.
KeysAcknowledged ==
    {k \in 1..Len(sent) :
        /\ sent[k].cmd = "update aud3g"
        /\ k < Len(sent) \/ Acknowledged(reply, Nothing)}

\* C17: in every state cnt_new_default is the number of lines this run has
\* appended to defaults.csv, and cnt_new_hlr is the number of records whose
\* create, update msisdn and update aud3g were all acknowledged; so they
\* are at the successful end of the run, where they are printed.
C17_CountersMatch ==
    /\ cnt_new_default = Len(defaults) - loaded_len
    /\ cnt_new_hlr = Cardinality(KeysAcknowledged)
    /\ \A k \in KeysAcknowledged :
          /\ k > 3
          /\ sent[k - 2] = CreateCmd(sent[k].imsi)
          /\ sent[k - 1].cmd = "update msisdn"
          /\ sent[k - 1].imsi = sent[k].imsi

\* A run has ended with status 0 with two lines appended and one subscriber
\* made.
C17_Witness ==
    /\ pc = "exited"
    /\ exit_code = ExitOk
    /\ cnt_new_default = 2
    /\ cnt_new_hlr = 1
    /\ Len(defaults) = loaded_len + 2
    /\ Cardinality(KeysAcknowledged) = 1

\* C18: when the process has ended, every number it sent in an update
\* msisdn that was acknowledged is the number the next load of defaults.csv
\* has for the IMSI, the last line for an IMSI being the one that counts.
C18_RegistryAgreesWithTable ==
    pc = "exited"
        => \A k \in 1..Len(sent) :
              (/\ sent[k].cmd = "update msisdn"
               /\ k < Len(sent) \/ Acknowledged(reply, UpdatedSubscriber))
                  => read_defaults(defaults).imsis[sent[k].imsi] = sent[k].arg[1]

\* defaults.csv has a line for the IMSI.
HasLine(f, i) == \E j \in 1..Len(f) : f[j].ok /\ f[j].imsi = i

\* C19: for a record whose IMSI is not in the loaded map the number is
\* made, appended and counted in the allocation step, with nothing sent and
\* the registry not asked; every existence query is for an IMSI that has
\* its line already, and its answer, "exists" included, changes neither
\* defaults.csv nor the store; and when a run has ended with status 0 every
\* file is read to its end and every IMSI of the input has a line.
C19_AllocatedWhateverRegistrySays ==
    /\ [][(pc = "alloc" /\ imsis[record.imsi] = NoEntry /\ pc' = "show")
             => /\ defaults' = Append(defaults, [ok |-> TRUE,
                                                 imsi |-> record.imsi,
                                                 default_msisdn |-> default_msisdn'])
                /\ cnt_new_default' = cnt_new_default + 1
                /\ UNCHANGED <<sent, hlr_db, reply>>]_vars
    /\ [](\A k \in 1..Len(sent) :
             sent[k].cmd = "show"
                 => /\ HasLine(defaults, sent[k].imsi)
                    /\ imsis[sent[k].imsi] = NoEntry
                          => \E j \in AppendedNow : defaults[j].imsi = sent[k].imsi)
    /\ [][pc = "show"
             => /\ sent' = Append(sent, ShowCmd(record.imsi))
                /\ UNCHANGED <<defaults, imsis, latest_default,
                               cnt_new_default>>]_vars
    /\ [](pc = "sync" \/ (pc = "exited" /\ exit_code = ExitOk)
             => \A f \in 1..Len(all_files) :
                   /\ all_files[f].closed
                   /\ \A k \in 1..Len(all_files[f].records) :
                         HasLine(defaults, all_files[f].records[k].imsi))

\* A run has ended with status 0; its last record's IMSI was not in the
\* map, got a line, and the registry said the subscriber exists: more was
\* allocated than provisioned.
C19_Witness ==
    /\ pc = "exited"
    /\ exit_code = ExitOk
    /\ ~faulted
    /\ sent[Len(sent)].cmd = "show"
    /\ SaysExists(reply)
    /\ imsis[sent[Len(sent)].imsi] = NoEntry
    /\ defaults[Len(defaults)].imsi = sent[Len(sent)].imsi
    /\ Len(defaults) > loaded_len
    /\ cnt_new_default > cnt_new_hlr

====
